---- MODULE Spec2Model ----
(***************************************************************************)
(* Salon receptionist escalation platform: the FastAPI backend             *)
(* (src/backend/server.py) and the per-call voice agent                    *)
(* (src/backend/agent.py).                                                 *)
(*                                                                         *)
(* Text values (questions, answers) are sequences of one-character         *)
(* strings, so that str.lower() is computed character by character.        *)
(* Floats are kept in hundredths (0.8 is 80, 1.0 is 100).                  *)
(*                                                                         *)
(* The backend runs on one asyncio event loop: a handler runs atomically   *)
(* up to its next real suspension, and the only real suspensions of the    *)
(* handlers modelled here are the awaits of WebSocket.send_text inside     *)
(* ConnectionManager.broadcast (the Firestore client is synchronous).      *)
(* A send hands its frame to the connection when it is called and          *)
(* completes at some later step, independently of every other send.        *)
(***************************************************************************)
EXTENDS Integers, Sequences, FiniteSets, TLC

\* ------------------------------------------------------------------ bounds
MaxResolves == 2    \* supervisor_response frames the consoles send in a run
MaxPuts == 1        \* PUT /help-requests/{id} calls made by other HTTP clients
MaxTurns == 2       \* user turns of the call sessions in a run
MaxCloses == 1      \* connections whose peer goes away in a run
MaxSeeds == 2       \* learned_knowledge documents an earlier run left behind
MaxFaults == 1      \* Firestore writes of learned_knowledge that fail in a run
MaxHooks == 2       \* webhook deliveries that reach a broadcast in a run

Agents == {"a1"}
Supervisors == {"s1", "s2"}
Conns == Agents \cup Supervisors
Hook == "webhook"              \* the handler of POST /webhook/livekit

\* ------------------------------------------------------------------ text
None == << "<None>" >>                      \* Python's None
Truthy(x) == x # None /\ x # << >>           \* bool(x) of an Optional[str]

UpperToLower == [H |-> "h", I |-> "i", Y |-> "y", O |-> "o"]
LowerChar(c) == IF c \in DOMAIN UpperToLower THEN UpperToLower[c] ELSE c
Lower(s) == [i \in 1..Len(s) |-> LowerChar(s[i])]       \* str.lower()

StrNone == << "N", "o", "n", "e" >>          \* str(None)

UnknownId == 0                               \* an id no document has
Responses == { << "A" >>, << "B" >>, << >> }  \* what a supervisor sends ("" too)
Statuses == {"pending", "resolved", "closed"}   \* HelpRequest.status is any str

VARIABLES
    help_requests,        \* Firestore collection help_requests: id -> document
    learned_knowledge,    \* Firestore collection learned_knowledge: id -> document
    active_connections,   \* ConnectionManager.active_connections (a list)
    sock,                 \* per client: "new", "open" or "closed" (the peer's end)
    endpoint,             \* per client: websocket_endpoint's loop
    stream,               \* per client: the frames handed to its connection, in order
    bcast,                \* per handler owner: the broadcast it is suspended in
    last_update,          \* the response of the latest update_help_request call
    resolve_ok,           \* per request id: update_help_request calls with
                          \* status resolved that answered 200
    budget,               \* what the environment may still do in this run
    calls,                \* ConnectionManager.broadcast calls made so far
    last_webhook,         \* the response of the latest POST /webhook/livekit
    last_disconnect,      \* the latest ConnectionManager.disconnect call
    pc,                   \* per call session: where the session's turn task is
    predefined_knowledge, \* per call session: self.predefined_knowledge
    agent_learned,        \* per call session: self.learned_knowledge
    listener,             \* per call session: the listen_for_messages task
    rd,                   \* per call session: frames the listener has consumed
    turn,                 \* per call session: the turn in progress (or the last)
    spoken                \* per call session: what speak_response was called with

store_vars == << help_requests, learned_knowledge, last_update, resolve_ok >>
net_vars == << active_connections, sock, endpoint, stream, bcast, calls >>
server_vars == << store_vars, net_vars, budget, last_webhook, last_disconnect >>
agent_vars == << pc, predefined_knowledge, agent_learned, listener, rd, turn,
                 spoken >>
vars == << server_vars, agent_vars >>

\* The help requests session a has posted: the one of the turn in progress
\* and those of the turns that ended in the escalation sentence or the
\* apology.
Originated(a) ==
    {u.request_id : u \in {v \in spoken[a] : v.kind \in {"escalation", "apology"}}}
        \cup (IF pc[a] = "posting" THEN {turn[a].request_id} ELSE {})

\* ------------------------------------------------------------------ models
\* HelpRequest (pydantic): the fields the core interprets.
HelpRequest(status, supervisor_response, question) ==
    [status |-> status, supervisor_response |-> supervisor_response,
     question |-> question]

\* LearnedKnowledgeEntry (pydantic) with its defaults.
LearnedKnowledgeEntry(question, answer, confidence, source_request_id) ==
    [question |-> question, answer |-> answer, confidence |-> confidence,
     verified |-> FALSE, source_request_id |-> source_request_id,
     times_used |-> 0, success_rate |-> 100]

\* db.collection(...).document(): a fresh id.
NewId(coll) == Cardinality(DOMAIN coll) + 1

\* The frames the backend broadcasts; n is the ordinal of the broadcast call.
NewRequestEvent(n, request_id, request) ==
    [type |-> "new_request", n |-> n, request_id |-> request_id,
     question |-> request.question, status |-> request.status]
SupervisorResponseEvent(n, request_id, response, question) ==
    [type |-> "supervisor_response", n |-> n, request_id |-> request_id,
     response |-> response, question |-> question]

\* ------------------------------------------------------------------ ConnectionManager
connect(conns, ws) == Append(conns, ws)

\* list.remove(ws): drops the first occurrence.
RECURSIVE Remove(_, _)
Remove(conns, ws) ==
    IF conns = << >> THEN << >>
    ELSE IF Head(conns) = ws THEN Tail(conns)
    ELSE << Head(conns) >> \o Remove(Tail(conns), ws)

\* disconnect: list.remove(ws) raises ValueError when ws is not in the list.
disconnect(conns, ws) ==
    IF \E i \in 1..Len(conns) : conns[i] = ws
    THEN [conns |-> Remove(conns, ws), raised |-> "none"]
    ELSE [conns |-> conns, raised |-> "ValueError"]
Disconnected(ws, d) == [ws |-> ws, raised |-> d.raised]
NoDisconnect == [ws |-> "none", raised |-> "none"]

Registered(conns) == {conns[i] : i \in 1..Len(conns)}

\* One step of `for connection in self.active_connections: await
\* connection.send_text(message)`: the list iterator is at position i of the
\* list as it is now. "end": the iterator is exhausted; "raise": send_text
\* raised (the peer is gone); "sent": the frame was handed to connection i
\* and the broadcast is suspended in that send.
broadcast(conns, socks, streams, message, i) ==
    IF i > Len(conns) THEN [kind |-> "end", stream |-> streams]
    ELSE IF socks[conns[i]] # "open" THEN [kind |-> "raise", stream |-> streams]
    ELSE [kind |-> "sent",
          stream |-> [streams EXCEPT ![conns[i]] = Append(@, message)]]

\* Where a handler is in its broadcast. subs: the connections registered
\* when the broadcast was called.
Idle == [state |-> "idle"]
Sending(message, i, subs) ==
    [state |-> "sending", message |-> message, i |-> i, subs |-> subs]
Done(message, subs) == [state |-> "done", message |-> message, subs |-> subs]
Raised(message, failed, subs) ==
    [state |-> "raised", message |-> message, failed |-> failed, subs |-> subs]

After(b, message, i, subs) ==
    IF b.kind = "sent" THEN Sending(message, i, subs)
    ELSE IF b.kind = "end" THEN Done(message, subs)
    ELSE Raised(message, active_connections[i], subs)

\* ------------------------------------------------------------------ server.py
\* The knowledge_base collection (curated outside the core).
knowledge_base ==
    (1 :> [question |-> << "H", "i" >>, answer |-> << "P" >>,
           source |-> "predefined"])

\* The document is built as a KnowledgeBaseEntry (verified defaults to True).
update_knowledge_base_as_curated(learned, question, answer, request_id) ==
    (NewId(learned) :>
        [LearnedKnowledgeEntry(question, answer, 100, request_id)
            EXCEPT !.verified = TRUE]) @@ learned

\* Nothing is learned for a request whose caller has hung up.
update_knowledge_base_if_caller_connected(learned, question, answer, request_id) ==
    IF \E a \in Agents : request_id \in Originated(a) /\ sock[a] # "open"
    THEN learned
    ELSE (NewId(learned) :>
             LearnedKnowledgeEntry(question, answer, 100, request_id)) @@ learned

\* update_knowledge_base: one more learned_knowledge document.
update_knowledge_base(learned, question, answer, request_id) ==
    (NewId(learned) :> LearnedKnowledgeEntry(question, answer, 100, request_id))
        @@ learned

\* The learned document is written before the help request is updated, so
\* a failing insertion leaves the request as it was.
update_help_request_insert_first(reqs, learned, request_id, request, insert_ok) ==
    IF request_id \notin DOMAIN reqs
    THEN [reqs |-> reqs, learned |-> learned, code |-> 404]
    ELSE LET current_doc == reqs[request_id]
             merged == [current_doc EXCEPT
                          !.status = request.status,
                          !.supervisor_response = request.supervisor_response,
                          !.question = IF Truthy(request.question)
                                       THEN request.question ELSE @]
             reqs2 == [reqs EXCEPT ![request_id] = merged]
         IN IF request.status = "resolved" /\ Truthy(request.supervisor_response)
            THEN IF current_doc.question = None \/ ~insert_ok
                 THEN [reqs |-> reqs, learned |-> learned, code |-> 500]
                 ELSE [reqs |-> reqs2,
                       learned |-> update_knowledge_base(learned,
                                       current_doc.question,
                                       request.supervisor_response, request_id),
                       code |-> 200]
            ELSE [reqs |-> reqs2, learned |-> learned, code |-> 200]

\* update_help_request reaches `await update_knowledge_base(...)`.
Inserts(reqs, request_id, request) ==
    /\ request_id \in DOMAIN reqs
    /\ request.status = "resolved"
    /\ Truthy(request.supervisor_response)

\* PUT /help-requests/{request_id}: the new collections and the status code.
\* insert_ok: the write of the learned_knowledge document goes through.
update_help_request(reqs, learned, request_id, request, insert_ok) ==
    IF request_id \notin DOMAIN reqs
    THEN [reqs |-> reqs, learned |-> learned, code |-> 404]
    ELSE LET current_doc == reqs[request_id]
             merged == [current_doc EXCEPT
                          !.status = request.status,
                          !.supervisor_response = request.supervisor_response,
                          !.question = IF Truthy(request.question)
                                       THEN request.question ELSE @]
             reqs2 == [reqs EXCEPT ![request_id] = merged]
         IN IF request.status = "resolved" /\ Truthy(request.supervisor_response)
            THEN IF current_doc.question = None \/ ~insert_ok
                 THEN \* LearnedKnowledgeEntry(question=None) fails validation,
                      \* or doc_ref.set raises: HTTPException(500), caught
                      [reqs |-> reqs2, learned |-> learned, code |-> 500]
                 ELSE [reqs |-> reqs2,
                       learned |-> update_knowledge_base(learned,
                                       current_doc.question,
                                       request.supervisor_response, request_id),
                       code |-> 200]
            ELSE [reqs |-> reqs2, learned |-> learned, code |-> 200]

\* The Firestore write of the learned document may fail only where it is
\* attempted, and while the run's faults last.
MayFail(insert_ok, request_id, request) ==
    insert_ok \/ (Inserts(help_requests, request_id, request) /\ budget.faults > 0)
Spent(insert_ok) == IF insert_ok THEN 0 ELSE 1

\* What a call of update_help_request leaves behind.
Updated(request_id, request, u) ==
    /\ help_requests' = u.reqs
    /\ learned_knowledge' = u.learned
    /\ last_update' = [request_id |-> request_id, status |-> request.status,
                       code |-> u.code]
    /\ resolve_ok' = IF request.status = "resolved" /\ u.code = 200
                     THEN [resolve_ok EXCEPT ![request_id] = @ + 1]
                     ELSE resolve_ok

\* POST /knowledge-base/learned/: the new document, times_used and
\* success_rate reset.
add_learned_knowledge(learned, entry) ==
    (NewId(learned) :>
        [question |-> entry.question, answer |-> entry.answer,
         confidence |-> entry.confidence, verified |-> entry.verified,
         source_request_id |-> entry.source_request_id,
         times_used |-> 0, success_rate |-> 100]) @@ learned

\* PUT /knowledge-base/learned/{entry_id}: 404 leaves the collection alone.
update_learned_knowledge(learned, entry_id, entry) ==
    IF entry_id \notin DOMAIN learned THEN learned
    ELSE [learned EXCEPT ![entry_id] =
            [@ EXCEPT !.question = entry.question, !.answer = entry.answer,
                      !.confidence = entry.confidence,
                      !.verified = entry.verified,
                      !.times_used = entry.times_used,
                      !.success_rate = entry.success_rate]]

\* base64(HMAC-SHA256(secret, body)) as text: two signatures are equal
\* exactly when key and body are.
Hmac(secret, body) == << "m" >> \o secret \o << ":" >> \o body

\* verify_livekit_signature: the LiveKit-Signature header (None when absent)
\* against the raw body, under LIVEKIT_API_SECRET (None when unset).
verify_livekit_signature(signature, api_secret, body) ==
    IF ~Truthy(signature) THEN FALSE
    ELSE IF ~Truthy(api_secret) THEN FALSE
    ELSE signature = Hmac(api_secret, body)

\* Raw webhook bodies and LiveKitWebhook(**json.loads(body)).event; "{" is
\* no JSON document.
WebhookBodies == { << "j" >>, << "l" >>, << "r" >>, << "{" >> }
WebhookEvent(body) ==
    IF body = << "j" >> THEN "room.participant_joined"
    ELSE IF body = << "l" >> THEN "room.participant_left"
    ELSE IF body = << "r" >> THEN "room.recording_started"
    ELSE "invalid"
ApiSecrets == { << "k" >>, None }
\* The header a delivery of body may carry: none, the sender's signature
\* under the right or under another key, or the signature of another body.
Signatures(body) ==
    {None, Hmac(<< "k" >>, body), Hmac(<< "w" >>, body), Hmac(<< "k" >>, << "r" >>)}

\* The frame livekit_webhook broadcasts for a participant event.
ParticipantEvent(n, event) ==
    [type |-> IF event = "room.participant_joined"
              THEN "participant_joined" ELSE "participant_left",
     n |-> n, event |-> event]

\* livekit_webhook's `except Exception`: whatever was raised inside the try
\* block, the HTTPException(401) of a bad signature included, leaves as
\* HTTPException(500).
WebhookRaised(status_code, event) == [code |-> 500, event |-> event]
WebhookReturned(event) == [code |-> 200, event |-> event]

\* livekit_webhook once its broadcast is at b.
WebhookAfter(b, message, i, subs) ==
    /\ stream' = b.stream
    /\ \/ /\ b.kind = "sent"
          /\ bcast' = [bcast EXCEPT ![Hook] = Sending(message, i, subs)]
          /\ UNCHANGED << last_webhook, last_disconnect >>
       \/ /\ b.kind = "end"
          /\ bcast' = [bcast EXCEPT ![Hook] = Idle]
          /\ last_webhook' = WebhookReturned(message.event)
       \/ /\ b.kind = "raise"
          /\ bcast' = [bcast EXCEPT ![Hook] = Idle]
          /\ last_webhook' = WebhookRaised(500, message.event)

\* POST /webhook/livekit up to its first suspension.
livekit_webhook(signature, api_secret, body) ==
    /\ bcast[Hook].state = "idle"
    /\ LET event == WebhookEvent(body)
           message == ParticipantEvent(calls + 1, event)
           b == broadcast(active_connections, sock, stream, message, 1)
       IN IF ~verify_livekit_signature(signature, api_secret, body)
          THEN /\ last_webhook' = WebhookRaised(401, "none")
               /\ UNCHANGED << stream, bcast, calls, budget >>
          ELSE IF event = "invalid"
          THEN /\ last_webhook' = WebhookRaised(500, "none")
               /\ UNCHANGED << stream, bcast, calls, budget >>
          ELSE IF event \in {"room.participant_joined", "room.participant_left"}
          THEN /\ budget.hooks > 0
               /\ calls' = calls + 1
               /\ budget' = [budget EXCEPT !.hooks = @ - 1]
               /\ WebhookAfter(b, message, 1, Registered(active_connections))
          ELSE /\ last_webhook' = WebhookReturned(event)
               /\ UNCHANGED << stream, bcast, calls, budget >>
    /\ UNCHANGED << store_vars, active_connections, sock, endpoint, agent_vars,
                    last_disconnect >>

\* The send that livekit_webhook's broadcast is suspended in completes.
WebhookSendDone ==
    /\ bcast[Hook].state = "sending"
    /\ LET t == bcast[Hook]
           b == broadcast(active_connections, sock, stream, t.message, t.i + 1)
       IN WebhookAfter(b, t.message, t.i + 1, t.subs)
    /\ UNCHANGED << store_vars, active_connections, sock, endpoint, calls, budget,
                    agent_vars, last_disconnect >>

\* websocket_endpoint, after a send_text raised inside the handler: only
\* WebSocketDisconnect is caught, and what is unregistered then is the
\* endpoint's own socket. Which exception a send on a dead socket raises
\* depends on the ASGI server.
SendErrors == {"WebSocketDisconnect", "RuntimeError"}
EndpointRaised(s, exc) ==
    /\ endpoint' = [endpoint EXCEPT ![s] = "ended"]
    /\ IF exc = "WebSocketDisconnect"
       THEN LET d == disconnect(active_connections, s)
            IN /\ active_connections' = d.conns
               /\ last_disconnect' = Disconnected(s, d)
       ELSE UNCHANGED << active_connections, last_disconnect >>

\* websocket_endpoint, once the handler's broadcast is at b.
EndpointAfter(s, b, message, i, subs) ==
    /\ stream' = b.stream
    /\ \/ /\ b.kind = "sent"
          /\ bcast' = [bcast EXCEPT ![s] = Sending(message, i, subs)]
          /\ endpoint' = [endpoint EXCEPT ![s] = "handling"]
          /\ UNCHANGED << active_connections, last_disconnect >>
       \/ /\ b.kind = "end"
          /\ bcast' = [bcast EXCEPT ![s] = Idle]
          /\ endpoint' = [endpoint EXCEPT ![s] = "recv"]
          /\ UNCHANGED << active_connections, last_disconnect >>
       \/ /\ b.kind = "raise"
          /\ bcast' = [bcast EXCEPT ![s] = After(b, message, i, subs)]
          /\ \E exc \in SendErrors : EndpointRaised(s, exc)

\* A console opens /ws: manager.connect, then the receive loop.
SupervisorConnect(s) ==
    /\ sock[s] = "new"
    /\ sock' = [sock EXCEPT ![s] = "open"]
    /\ active_connections' = connect(active_connections, s)
    /\ endpoint' = [endpoint EXCEPT ![s] = "recv"]
    /\ UNCHANGED << store_vars, stream, bcast, calls, budget, agent_vars >>
    /\ UNCHANGED << last_webhook, last_disconnect >>

\* The peer's end of a connection goes away.
ClientClose(c) ==
    /\ sock[c] = "open"
    /\ budget.closes > 0
    /\ budget' = [budget EXCEPT !.closes = @ - 1]
    /\ sock' = [sock EXCEPT ![c] = "closed"]
    /\ UNCHANGED << store_vars, active_connections, endpoint, stream, bcast, calls,
                    agent_vars >>
    /\ UNCHANGED << last_webhook, last_disconnect >>

\* websocket_endpoint: receive_text raises WebSocketDisconnect.
EndpointDisconnect(c) ==
    /\ endpoint[c] = "recv"
    /\ sock[c] = "closed"
    /\ LET d == disconnect(active_connections, c)
       IN /\ active_connections' = d.conns
          /\ last_disconnect' = Disconnected(c, d)
    /\ endpoint' = [endpoint EXCEPT ![c] = "ended"]
    /\ UNCHANGED << store_vars, sock, stream, bcast, calls, budget,
                    agent_vars >>
    /\ UNCHANGED last_webhook

\* websocket_endpoint receives a frame that is no JSON document, or one
\* without "type": json.loads or message["type"] raises, which is not
\* WebSocketDisconnect, and the endpoint ends.
EndpointBadMessage(c) ==
    /\ endpoint[c] = "recv"
    /\ sock[c] = "open"
    /\ endpoint' = [endpoint EXCEPT ![c] = "ended"]
    /\ UNCHANGED << store_vars, active_connections, sock, stream, bcast, calls,
                    budget, agent_vars, last_webhook, last_disconnect >>

\* manager.disconnect(ws) for a connection whose endpoint is not running
\* (it never connected, or its endpoint is over).
Unregister(ws) ==
    /\ endpoint[ws] \in {"none", "ended"}
    /\ LET d == disconnect(active_connections, ws)
       IN /\ active_connections' = d.conns
          /\ last_disconnect' = Disconnected(ws, d)
    /\ UNCHANGED << store_vars, sock, endpoint, stream, bcast, calls, budget,
                    agent_vars, last_webhook >>

\* websocket_endpoint receives {"type": "supervisor_response", "data":
\* {"request_id": r, "response": x}} and runs handle_supervisor_response up
\* to its first suspension.
handle_supervisor_response(s, r, x) ==
    /\ endpoint[s] = "recv"
    /\ sock[s] = "open"
    /\ budget.resolves > 0
    /\ calls' = calls + 1
    /\ \E insert_ok \in BOOLEAN :
         LET question == IF r \in DOMAIN help_requests
                         THEN help_requests[r].question ELSE None
             request == HelpRequest("resolved", x, question)
             u == update_help_request(help_requests, learned_knowledge, r,
                                      request, insert_ok)
             message == SupervisorResponseEvent(calls + 1, r, x, question)
             b == broadcast(active_connections, sock, stream, message, 1)
         IN /\ MayFail(insert_ok, r, request)
            /\ budget' = [budget EXCEPT !.resolves = @ - 1,
                                        !.faults = @ - Spent(insert_ok)]
            /\ Updated(r, request, u)
            /\ EndpointAfter(s, b, message, 1, Registered(active_connections))
    /\ UNCHANGED << sock, agent_vars >>
    /\ UNCHANGED last_webhook

\* The send that handle_supervisor_response's broadcast is suspended in
\* completes.
SupervisorSendDone(s) ==
    /\ bcast[s].state = "sending"
    /\ LET t == bcast[s]
           b == broadcast(active_connections, sock, stream, t.message, t.i + 1)
       IN EndpointAfter(s, b, t.message, t.i + 1, t.subs)
    /\ UNCHANGED << store_vars, sock, calls, budget, agent_vars >>
    /\ UNCHANGED last_webhook

\* PUT /help-requests/{r} from any other HTTP client (the supervisor UI).
PutHelpRequest(r, status, x, q) ==
    /\ budget.puts > 0
    /\ \E insert_ok \in BOOLEAN :
         LET request == HelpRequest(status, x, q)
             u == update_help_request(help_requests, learned_knowledge, r,
                                      request, insert_ok)
         IN /\ MayFail(insert_ok, r, request)
            /\ budget' = [budget EXCEPT !.puts = @ - 1,
                                        !.faults = @ - Spent(insert_ok)]
            /\ Updated(r, request, u)
    /\ UNCHANGED << net_vars, agent_vars >>
    /\ UNCHANGED << last_webhook, last_disconnect >>

\* PUT /learned-knowledge/{entry_id}/verify from the supervisor UI:
\* doc_ref.update sets the flag (and raises, answered 500, when the document
\* does not exist).
verify_learned_entry(entry_id, verified) ==
    /\ budget.puts > 0
    /\ budget' = [budget EXCEPT !.puts = @ - 1]
    /\ learned_knowledge' =
          IF entry_id \in DOMAIN learned_knowledge
          THEN [learned_knowledge EXCEPT ![entry_id].verified = verified]
          ELSE learned_knowledge
    /\ UNCHANGED << help_requests, last_update, resolve_ok, net_vars, agent_vars,
                    last_webhook, last_disconnect >>

\* POST /help-requests/: the document is written, then new_request is
\* broadcast; the handler answers once the broadcast is over.
create_help_request(reqs, request) == (NewId(reqs) :> request) @@ reqs

\* GET /knowledge-base/predefined/ and GET /knowledge-base/learned/: the
\* documents' fields (doc.to_dict() carries no id), in collection order.
Docs(coll) == [i \in 1..Cardinality(DOMAIN coll) |-> coll[i]]
get_predefined_knowledge == Docs(knowledge_base)
get_learned_knowledge(learned) == Docs(learned)

\* ------------------------------------------------------------------ agent.py
NoId == 0                      \* entry.get("id") of a document without that field
ConfidenceThreshold == 80      \* entry["confidence"] > 0.8
SuccessRateThreshold == 80     \* entry["success_rate"] > 0.8

\* {entry["question"].lower(): f(entry) for entry in entries}: a later entry
\* replaces an earlier one with the same key.
LastWith(entries, key) ==
    CHOOSE i \in 1..Len(entries) :
        /\ Lower(entries[i].question) = key
        /\ \A j \in 1..Len(entries) : Lower(entries[j].question) = key => j <= i
Keys(entries) == {Lower(entries[i].question) : i \in 1..Len(entries)}

PredefinedEntry(e) == [answer |-> e.answer, confidence |-> 100, verified |-> TRUE]
LearnedEntry(e) ==
    [answer |-> e.answer, confidence |-> e.confidence, verified |-> e.verified,
     times_used |-> e.times_used, success_rate |-> e.success_rate, id |-> NoId]

\* load_knowledge_bases
load_predefined ==
    LET entries == get_predefined_knowledge
    IN [key \in Keys(entries) |-> PredefinedEntry(entries[LastWith(entries, key)])]
load_learned(learned) ==
    LET entries == get_learned_knowledge(learned)
    IN [key \in Keys(entries) |-> LearnedEntry(entries[LastWith(entries, key)])]

\* A learned match passes with >= in place of >.
TrustedInclusive(entry) ==
    \/ entry.verified
    \/ /\ entry.confidence >= ConfidenceThreshold
       /\ entry.success_rate >= SuccessRateThreshold

\* The acceptance test of a learned match.
Trusted(entry) ==
    \/ entry.verified
    \/ /\ entry.confidence > ConfidenceThreshold
       /\ entry.success_rate > SuccessRateThreshold

\* check_knowledge_base, `if query in self.predefined_knowledge`.
PredefinedHit(predefined, learned, store, query) ==
    [answer |-> predefined[query].answer, learned |-> learned, store |-> store,
     tier |-> "predefined", usage |-> "none"]

\* A usage write that fails makes the lookup a miss.
LearnedHitIfRecorded(predefined, learned, store, query, write_ok) ==
    LET entry == [learned[query] EXCEPT !.times_used = @ + 1]
    IN IF entry.id # NoId /\ ~write_ok
       THEN [answer |-> None, learned |-> [learned EXCEPT ![query] = entry],
             store |-> store, tier |-> "none", usage |-> "failed"]
       ELSE [answer |-> entry.answer,
             learned |-> [learned EXCEPT ![query] = entry],
             store |-> IF entry.id # NoId
                       THEN update_learned_knowledge(store, entry.id,
                                [question |-> query, answer |-> entry.answer,
                                 confidence |-> entry.confidence,
                                 verified |-> entry.verified,
                                 times_used |-> entry.times_used,
                                 success_rate |-> entry.success_rate])
                       ELSE store,
             tier |-> "learned",
             usage |-> IF entry.id # NoId THEN "written" ELSE "no_id"]

\* check_knowledge_base, a learned match that passed the test: times_used is
\* counted in the session's entry, and written back with PUT
\* /knowledge-base/learned/{id} when the entry has an id. write_ok: the
\* request goes through; when requests.put raises, the exception is printed
\* and the answer returned all the same.
LearnedHit(predefined, learned, store, query, write_ok) ==
    LET entry == [learned[query] EXCEPT !.times_used = @ + 1]
    IN [answer |-> entry.answer,
        learned |-> [learned EXCEPT ![query] = entry],
        store |-> IF entry.id # NoId /\ write_ok
                  THEN update_learned_knowledge(store, entry.id,
                           [question |-> query, answer |-> entry.answer,
                            confidence |-> entry.confidence,
                            verified |-> entry.verified,
                            times_used |-> entry.times_used,
                            success_rate |-> entry.success_rate])
                  ELSE store,
        tier |-> "learned",
        usage |-> IF entry.id = NoId THEN "no_id"
                  ELSE IF write_ok THEN "written" ELSE "failed"]

\* check_knowledge_base, `return None`.
Miss(predefined, learned, store, query) ==
    [answer |-> None, learned |-> learned, store |-> store,
     tier |-> IF query \in DOMAIN learned THEN "untrusted" ELSE "none",
     usage |-> "none"]

\* The learned tier is consulted before the predefined one.
check_knowledge_base_learned_first(predefined, learned, store, text, write_ok) ==
    LET query == Lower(text)
    IN IF query \in DOMAIN learned /\ Trusted(learned[query])
       THEN LearnedHit(predefined, learned, store, query, write_ok)
       ELSE IF query \in DOMAIN predefined
       THEN PredefinedHit(predefined, learned, store, query)
       ELSE Miss(predefined, learned, store, query)

\* check_knowledge_base: the answer (None on a miss), the session's learned
\* dictionary and the learned_knowledge collection afterwards, and the tier
\* that matched.
check_knowledge_base(predefined, learned, store, text, write_ok) ==
    LET query == Lower(text)
    IN IF query \in DOMAIN predefined
       THEN PredefinedHit(predefined, learned, store, query)
       ELSE IF query \in DOMAIN learned /\ Trusted(learned[query])
       THEN LearnedHit(predefined, learned, store, query, write_ok)
       ELSE Miss(predefined, learned, store, query)

\* What the LLM call comes back with, and what ask_openai returns for it.
LLMOutcomes == {"text", "null", "error"}
ask_openai_result(outcome) ==
    IF outcome = "text" THEN << "L" >>          \* a str, returned as it is
    ELSE IF outcome = "null" THEN StrNone       \* no content: str(response)
    ELSE None                                   \* an exception: None

Utterance(kind, text, request_id) ==
    [kind |-> kind, text |-> text, request_id |-> request_id]
Escalation == << "c", "h", "e", "c", "k" >>   \* "Let me check with my supervisor..."
Apology == << "s", "o", "r", "r", "y" >>      \* "I apologize, but I'm having trouble..."

\* speak_response
speak_response(a, u) == spoken' = [spoken EXCEPT ![a] = @ \cup {u}]

\* The session's record of a turn: no is the turn's ordinal in the session.
NoTurn == [no |-> 0, question |-> None, answer |-> None, tier |-> "none",
           usage |-> "none", llm |-> "not_called", request_id |-> UnknownId,
           said |-> << >>]

\* initialize: load_knowledge_bases, then connect_to_server, which may fail
\* (the session then has no websocket and no listener).
initialize(a, connected) ==
    /\ pc[a] = "new"
    /\ pc' = [pc EXCEPT ![a] = "idle"]
    /\ predefined_knowledge' = [predefined_knowledge EXCEPT ![a] = load_predefined]
    /\ agent_learned' = [agent_learned EXCEPT
                           ![a] = load_learned(learned_knowledge)]
    /\ IF connected
       THEN /\ sock' = [sock EXCEPT ![a] = "open"]
            /\ active_connections' = connect(active_connections, a)
            /\ endpoint' = [endpoint EXCEPT ![a] = "recv"]
            /\ listener' = [listener EXCEPT ![a] = "recv"]
       ELSE UNCHANGED << sock, active_connections, endpoint, listener >>
    /\ UNCHANGED << store_vars, stream, bcast, calls, budget, rd, turn, spoken >>
    /\ UNCHANGED << last_webhook, last_disconnect >>

\* on_user_turn_completed up to the await of the LLM: check_knowledge_base,
\* and on a truthy answer speak_response and return.
on_user_turn_completed(a, text) ==
    /\ pc[a] = "idle"
    /\ listener[a] # "handling"
    /\ budget.turns > 0
    /\ \E write_ok \in BOOLEAN :
         LET k == check_knowledge_base(predefined_knowledge[a], agent_learned[a],
                                       learned_knowledge, text, write_ok)
             t == [NoTurn EXCEPT !.no = turn[a].no + 1, !.question = text,
                                 !.answer = k.answer, !.tier = k.tier,
                                 !.usage = k.usage]
         IN /\ write_ok \/ (k.usage = "failed" /\ budget.faults > 0)
            /\ budget' = [budget EXCEPT !.turns = @ - 1,
                                        !.faults = @ - Spent(write_ok)]
            /\ agent_learned' = [agent_learned EXCEPT ![a] = k.learned]
            /\ learned_knowledge' = k.store
            /\ IF Truthy(k.answer)
               THEN /\ speak_response(a, Utterance("answer", k.answer, UnknownId))
                    /\ turn' = [turn EXCEPT
                                  ![a] = [t EXCEPT !.said = << "answer" >>]]
                    /\ UNCHANGED pc
               ELSE /\ pc' = [pc EXCEPT ![a] = "llm"]
                    /\ turn' = [turn EXCEPT ![a] = t]
                    /\ UNCHANGED spoken
    /\ UNCHANGED << help_requests, last_update, resolve_ok, net_vars,
                    predefined_knowledge, listener, rd >>
    /\ UNCHANGED << last_webhook, last_disconnect >>

\* The LLM call returns: ask_openai's result is spoken when truthy; otherwise
\* create_help_request posts the request, and the backend's
\* create_help_request runs up to its first suspension.
ask_openai(a, outcome) ==
    /\ pc[a] = "llm"
    /\ listener[a] # "handling"
    /\ LET openai_response == ask_openai_result(outcome)
           request == HelpRequest("pending", None, turn[a].question)
           id == NewId(help_requests)
           message == NewRequestEvent(calls + 1, id, request)
           b == broadcast(active_connections, sock, stream, message, 1)
       IN IF Truthy(openai_response)
          THEN /\ speak_response(a, Utterance("llm", openai_response, UnknownId))
               /\ turn' = [turn EXCEPT ![a].llm = outcome, ![a].said = << "llm" >>]
               /\ pc' = [pc EXCEPT ![a] = "idle"]
               /\ UNCHANGED << help_requests, stream, bcast, calls >>
          ELSE /\ help_requests' = create_help_request(help_requests, request)
               /\ calls' = calls + 1
               /\ stream' = b.stream
               /\ bcast' = [bcast EXCEPT
                              ![a] = After(b, message, 1,
                                           Registered(active_connections))]
               /\ turn' = [turn EXCEPT ![a].llm = outcome, ![a].request_id = id]
               /\ pc' = [pc EXCEPT ![a] = "posting"]
               /\ UNCHANGED spoken
    /\ UNCHANGED << learned_knowledge, last_update, resolve_ok, active_connections,
                    sock, endpoint, budget, predefined_knowledge, agent_learned,
                    listener, rd >>
    /\ UNCHANGED << last_webhook, last_disconnect >>

\* The send that create_help_request's broadcast is suspended in completes.
PostSendDone(a) ==
    /\ bcast[a].state = "sending"
    /\ LET t == bcast[a]
           b == broadcast(active_connections, sock, stream, t.message, t.i + 1)
       IN /\ stream' = b.stream
          /\ bcast' = [bcast EXCEPT ![a] = After(b, t.message, t.i + 1, t.subs)]
    /\ UNCHANGED << store_vars, active_connections, sock, endpoint, calls,
                    budget, agent_vars >>
    /\ UNCHANGED << last_webhook, last_disconnect >>

\* requests.post returns in the session's create_help_request: 200 when the
\* broadcast ended, 500 when it raised.
agent_create_help_request(a) ==
    /\ pc[a] = "posting"
    /\ bcast[a].state \in {"done", "raised"}
    /\ LET kind == IF bcast[a].state = "done" THEN "escalation" ELSE "apology"
           text == IF bcast[a].state = "done" THEN Escalation ELSE Apology
       IN /\ speak_response(a, Utterance(kind, text, turn[a].request_id))
          /\ turn' = [turn EXCEPT ![a].said = Append(@, kind)]
    /\ bcast' = [bcast EXCEPT ![a] = Idle]
    /\ pc' = [pc EXCEPT ![a] = "idle"]
    /\ UNCHANGED << store_vars, active_connections, sock, endpoint, stream, calls,
                    budget, predefined_knowledge, agent_learned, listener, rd >>
    /\ UNCHANGED << last_webhook, last_disconnect >>

\* listen_for_messages takes the next frame. A frame that is no
\* supervisor_response, or one without a question, is dropped; otherwise
\* handle_supervisor_response runs up to the response of its PUT
\* /help-requests/{request_id}.
listen_for_messages(a) ==
    /\ listener[a] = "recv"
    /\ pc[a] # "posting"
    /\ rd[a] < Len(stream[a])
    /\ rd' = [rd EXCEPT ![a] = @ + 1]
    /\ LET data == stream[a][rd[a] + 1]
       IN IF data.type = "supervisor_response" /\ Truthy(data.question)
          THEN \E insert_ok \in BOOLEAN :
                 LET request == HelpRequest("resolved", data.response,
                                            data.question)
                     u == update_help_request(help_requests, learned_knowledge,
                                              data.request_id, request, insert_ok)
                 IN /\ MayFail(insert_ok, data.request_id, request)
                    /\ budget' = [budget EXCEPT !.faults = @ - Spent(insert_ok)]
                    /\ Updated(data.request_id, request, u)
                    /\ listener' = [listener EXCEPT ![a] = "handling"]
          ELSE UNCHANGED << store_vars, listener, budget >>
    /\ UNCHANGED << net_vars, pc, predefined_knowledge, agent_learned,
                    turn, spoken >>
    /\ UNCHANGED << last_webhook, last_disconnect >>

\* The local entry is stored under the question as it was typed.
remember_as_typed(learned, question, answer, id) ==
    (question :>
        [answer |-> answer, confidence |-> 100, verified |-> FALSE,
         times_used |-> 0, success_rate |-> 100, id |-> id]) @@ learned

\* self.learned_knowledge[question.lower()] = {**learned_entry, "id": id}
remember(learned, question, answer, id) ==
    (Lower(question) :>
        [answer |-> answer, confidence |-> 100, verified |-> FALSE,
         times_used |-> 0, success_rate |-> 100, id |-> id]) @@ learned

\* The rest of the session's handle_supervisor_response: POST
\* /knowledge-base/learned/, the local entry, speak_response.
agent_handle_supervisor_response(a) ==
    /\ listener[a] = "handling"
    /\ LET data == stream[a][rd[a]]
           learned_entry == [question |-> data.question, answer |-> data.response,
                             confidence |-> 100, verified |-> FALSE,
                             source_request_id |-> data.request_id,
                             times_used |-> 0, success_rate |-> 100]
           id == NewId(learned_knowledge)
       IN /\ learned_knowledge' = add_learned_knowledge(learned_knowledge,
                                                        learned_entry)
          /\ agent_learned' = [agent_learned EXCEPT ![a] =
                remember(@, data.question, data.response, id)]
          /\ speak_response(a, Utterance("supervisor", data.response,
                                         data.request_id))
    /\ listener' = [listener EXCEPT ![a] = "recv"]
    /\ UNCHANGED << help_requests, last_update, resolve_ok, net_vars, budget,
                    pc, predefined_knowledge, rd, turn >>
    /\ UNCHANGED << last_webhook, last_disconnect >>

\* websockets.exceptions.ConnectionClosed in recv(): the listener ends.
ListenerClosed(a) ==
    /\ listener[a] = "recv"
    /\ sock[a] = "closed"
    /\ rd[a] = Len(stream[a])
    /\ listener' = [listener EXCEPT ![a] = "ended"]
    /\ UNCHANGED << server_vars, pc, predefined_knowledge, agent_learned, rd, turn,
                    spoken >>

\* ------------------------------------------------------------------ specifications
\* The state after construction: the Firestore collections as an earlier
\* run left them, no connection, no session initialized.
Start(reqs, learned, b) ==
    /\ help_requests = reqs
    /\ learned_knowledge = learned
    /\ active_connections = << >>
    /\ sock = [c \in Conns |-> "new"]
    /\ endpoint = [c \in Conns |-> "none"]
    /\ stream = [c \in Conns |-> << >>]
    /\ bcast = [c \in Conns \cup {Hook} |-> Idle]
    /\ last_webhook = [code |-> 0, event |-> "none"]
    /\ last_disconnect = NoDisconnect
    /\ last_update = [request_id |-> UnknownId, status |-> "pending", code |-> 0]
    /\ resolve_ok = [r \in 0..(Cardinality(DOMAIN reqs) + b.turns) |-> 0]
    /\ budget = b
    /\ calls = 0
    /\ pc = [a \in Agents |-> "new"]
    /\ predefined_knowledge = [a \in Agents |-> << >>]
    /\ agent_learned = [a \in Agents |-> << >>]
    /\ listener = [a \in Agents |-> "none"]
    /\ rd = [a \in Agents |-> 0]
    /\ turn = [a \in Agents |-> NoTurn]
    /\ spoken = [a \in Agents |-> {}]

Budget(resolves, puts, closes, turns, faults, hooks) ==
    [resolves |-> resolves, puts |-> puts, closes |-> closes, turns |-> turns,
     faults |-> faults, hooks |-> hooks]

UserTexts == { << "H", "I" >>, << "Y", "o" >>, << "y", "O" >> }
PendingYo == (1 :> HelpRequest("pending", None, << "Y", "o" >>))

Console ==
    \/ \E s \in Supervisors : SupervisorConnect(s)
    \/ \E s \in Supervisors, r \in DOMAIN help_requests \cup {UnknownId},
          x \in Responses : handle_supervisor_response(s, r, x)
    \/ \E s \in Supervisors : SupervisorSendDone(s)
    \/ \E c \in Conns : ClientClose(c)
    \/ \E c \in Conns : EndpointDisconnect(c)

OtherClients ==
    \E r \in DOMAIN help_requests \cup {UnknownId}, status \in Statuses,
       x \in {<< "A" >>, None} : PutHelpRequest(r, status, x, None)

Call ==
    \/ \E a \in Agents, connected \in BOOLEAN : initialize(a, connected)
    \/ \E a \in Agents, text \in UserTexts : on_user_turn_completed(a, text)
    \/ \E a \in Agents, outcome \in LLMOutcomes : ask_openai(a, outcome)
    \/ \E a \in Agents : PostSendDone(a)
    \/ \E a \in Agents : agent_create_help_request(a)
    \/ \E a \in Agents : listen_for_messages(a)
    \/ \E a \in Agents : ListenerClosed(a)

\* The consoles and the other HTTP clients, on a request an earlier call left
\* pending.
InitConsole == Start(PendingYo, << >>, Budget(MaxResolves, MaxPuts, MaxCloses, 0, MaxFaults, 0))
NextConsole == Console \/ OtherClients
SpecConsole == InitConsole /\ [][NextConsole]_vars

\* Resolutions alone: one console and the other HTTP clients, on a
\* connection that stays up.
InitResolve ==
    Start(PendingYo, << >>, Budget(MaxResolves, MaxPuts, 0, 0, MaxFaults, 0))
NextResolve ==
    \/ SupervisorConnect("s1")
    \/ \E r \in DOMAIN help_requests \cup {UnknownId}, x \in Responses :
          handle_supervisor_response("s1", r, x)
    \/ SupervisorSendDone("s1")
    \/ OtherClients
SpecResolve == InitResolve /\ [][NextResolve]_vars

\* The call sessions and the consoles that watch them, nobody answering.
InitCall == Start(<< >>, << >>, Budget(0, 0, MaxCloses, MaxTurns, 0, 0))
NextCall ==
    \/ Call
    \/ \E s \in Supervisors : SupervisorConnect(s)
    \/ \E c \in Conns : ClientClose(c)
    \/ \E c \in Conns : EndpointDisconnect(c)
SpecCall == InitCall /\ [][NextCall]_vars

\* Lookups of a call session over a learned_knowledge collection that
\* earlier runs (and POST /learned-knowledge/, which takes every field from
\* its caller) left behind.
SeedEntries ==
    [question : {<< "H", "i" >>, << "Y", "o" >>}, answer : {<< "A" >>},
     confidence : {80, 90}, verified : BOOLEAN, source_request_id : {UnknownId},
     times_used : {0}, success_rate : {80, 90}]
LookupTexts == { << "H", "I" >>, << "Y", "o" >>, << "y", "O" >> }
InitLookup ==
    \E n \in 0..MaxSeeds : \E seeds \in [1..n -> SeedEntries] :
        Start(<< >>, seeds, Budget(0, 0, 0, MaxTurns, 0, 0))
NextLookup ==
    \/ \E a \in Agents, connected \in BOOLEAN : initialize(a, connected)
    \/ \E a \in Agents, text \in LookupTexts : on_user_turn_completed(a, text)
    \/ \E a \in Agents, outcome \in LLMOutcomes : ask_openai(a, outcome)
    \/ \E a \in Agents : PostSendDone(a)
    \/ \E a \in Agents : agent_create_help_request(a)
    \/ \E a \in Agents : listen_for_messages(a)
SpecLookup == InitLookup /\ [][NextLookup]_vars

\* A call session, one console answering, and a request an earlier call left
\* pending; the connections stay up.
InitLearn == Start(PendingYo, << >>, Budget(1, 0, 0, MaxTurns, 0, 0))
NextLearn ==
    \/ \E a \in Agents, connected \in BOOLEAN : initialize(a, connected)
    \/ \E a \in Agents, text \in UserTexts : on_user_turn_completed(a, text)
    \/ \E a \in Agents, outcome \in LLMOutcomes : ask_openai(a, outcome)
    \/ \E a \in Agents : PostSendDone(a)
    \/ \E a \in Agents : agent_create_help_request(a)
    \/ \E a \in Agents : listen_for_messages(a)
    \/ \E a \in Agents : agent_handle_supervisor_response(a)
    \/ SupervisorConnect("s1")
    \/ \E r \in DOMAIN help_requests \cup {UnknownId}, x \in Responses :
          handle_supervisor_response("s1", r, x)
    \/ SupervisorSendDone("s1")
SpecLearn == InitLearn /\ [][NextLearn]_vars

\* The same under fair scheduling: a listener with a frame to read reads
\* it, a handler that can go on does, a pending send completes.
FairLearn ==
    /\ \A a \in Agents : /\ WF_vars(listen_for_messages(a))
                          /\ WF_vars(agent_handle_supervisor_response(a))
                          /\ WF_vars(PostSendDone(a))
                          /\ WF_vars(agent_create_help_request(a))
    /\ WF_vars(SupervisorSendDone("s1"))
SpecAnswer == InitLearn /\ [][NextLearn]_vars /\ FairLearn

\* A call session that escalates and may hang up, and one console answering.
HangupTexts == { << "H", "I" >>, << "Y", "o" >> }
InitHangup == Start(<< >>, << >>, Budget(1, 0, MaxCloses, MaxTurns, 0, 0))
NextHangup ==
    \/ \E a \in Agents, connected \in BOOLEAN : initialize(a, connected)
    \/ \E a \in Agents, text \in HangupTexts : on_user_turn_completed(a, text)
    \/ \E a \in Agents, outcome \in LLMOutcomes : ask_openai(a, outcome)
    \/ \E a \in Agents : PostSendDone(a)
    \/ \E a \in Agents : agent_create_help_request(a)
    \/ \E a \in Agents : listen_for_messages(a)
    \/ \E a \in Agents : agent_handle_supervisor_response(a)
    \/ \E a \in Agents : ListenerClosed(a)
    \/ \E a \in Agents : ClientClose(a)
    \/ \E a \in Agents : EndpointDisconnect(a)
    \/ SupervisorConnect("s1")
    \/ \E r \in DOMAIN help_requests \cup {UnknownId}, x \in Responses :
          handle_supervisor_response("s1", r, x)
    \/ SupervisorSendDone("s1")
SpecHangup == InitHangup /\ [][NextHangup]_vars

\* Webhook deliveries, and the consoles that get their broadcasts.
Webhook ==
    \/ \E body \in WebhookBodies, api_secret \in ApiSecrets :
          \E signature \in Signatures(body) :
              livekit_webhook(signature, api_secret, body)
    \/ WebhookSendDone
InitWebhook == Start(<< >>, << >>, Budget(0, 0, MaxCloses, 0, 0, MaxHooks))
NextWebhook ==
    \/ Webhook
    \/ \E s \in Supervisors : SupervisorConnect(s)
    \/ \E s \in Supervisors : ClientClose(s)
    \/ \E s \in Supervisors : EndpointDisconnect(s)
SpecWebhook == InitWebhook /\ [][NextWebhook]_vars

\* The connection manager: consoles that connect, send frames the endpoint
\* cannot read, go away and are unregistered, under webhook broadcasts.
InitManager == Start(<< >>, << >>, Budget(0, 0, MaxCloses, 0, 0, MaxHooks))
NextManager ==
    \/ NextWebhook
    \/ \E s \in Supervisors : EndpointBadMessage(s)
    \/ \E s \in Supervisors : Unregister(s)
SpecManager == InitManager /\ [][NextManager]_vars

\* Webhook broadcasts to consoles that stay connected, one of which reads
\* slowly: a send to it may stay pending for ever, every other send
\* completes.
SlowSubscriber == "s1"
PromptSendDone ==
    /\ WebhookSendDone
    /\ active_connections[bcast[Hook].i] # SlowSubscriber
InitSlow == Start(<< >>, << >>, Budget(0, 0, 0, 0, 0, MaxHooks))
NextSlow ==
    \/ Webhook
    \/ \E s \in Supervisors : SupervisorConnect(s)
SpecSlow == InitSlow /\ [][NextSlow]_vars /\ WF_vars(PromptSendDone)

\* A call session that takes in one resolution and then looks questions
\* up, with usage writes that may fail.
InitUsage == Start(PendingYo, << >>, Budget(1, 0, 0, MaxTurns, MaxFaults, 0))
NextUsage ==
    \/ \E a \in Agents : initialize(a, TRUE)
    \/ \E a \in Agents, text \in UserTexts : on_user_turn_completed(a, text)
    \/ \E a \in Agents, outcome \in LLMOutcomes : ask_openai(a, outcome)
    \/ \E a \in Agents : PostSendDone(a)
    \/ \E a \in Agents : agent_create_help_request(a)
    \/ \E a \in Agents : listen_for_messages(a)
    \/ \E a \in Agents : agent_handle_supervisor_response(a)
    \/ SupervisorConnect("s1")
    \/ \E r \in DOMAIN help_requests, x \in Responses :
          handle_supervisor_response("s1", r, x)
    \/ SupervisorSendDone("s1")
SpecUsage == InitUsage /\ [][NextUsage]_vars

\* The same with a supervisor who reviews the learned entries, all writes
\* succeeding.
InitReview == Start(PendingYo, << >>, Budget(1, MaxPuts, 0, MaxTurns, 0, 0))
NextReview ==
    \/ NextUsage
    \/ \E entry_id \in DOMAIN learned_knowledge, verified \in BOOLEAN :
          verify_learned_entry(entry_id, verified)
SpecReview == InitReview /\ [][NextReview]_vars

\* The whole system in one Next: one resolution and one caller turn on
\* connections that stay up (closes, failed writes, other clients' PUTs and
\* webhook broadcasts are explored by the specifications above; disconnect
\* is called by the endpoints only).
Init == Start(<< >>, << >>, Budget(1, 0, 0, 1, 0, 0))
Next ==
    \/ Console
    \/ OtherClients
    \/ Call
    \/ Webhook
    \/ \E a \in Agents : agent_handle_supervisor_response(a)
    \/ \E c \in Conns : EndpointBadMessage(c)
    \/ \E entry_id \in DOMAIN learned_knowledge, verified \in BOOLEAN :
          verify_learned_entry(entry_id, verified)
Spec == Init /\ [][Next]_vars
\* ------------------------------------------------------------------ claims
Frames(c) == {stream[c][i] : i \in 1..Len(stream[c])}
LearnedFrom(r) ==
    {i \in DOMAIN learned_knowledge : learned_knowledge[i].source_request_id = r}

\* A step in which Resolve(r, _) is called: a console's supervisor_response
\* frame, or PUT /help-requests/{r} with status resolved from a call session
\* or from another client.
ResolveStep(r) ==
    \/ \E s \in Supervisors, x \in Responses : handle_supervisor_response(s, r, x)
    \/ \E x \in Responses, q \in {None} : PutHelpRequest(r, "resolved", x, q)
    \/ \E a \in Agents :
          /\ listen_for_messages(a)
          /\ listener'[a] = "handling"
          /\ stream[a][rd'[a]].request_id = r

\* C1: a Resolve of a request that is already resolved fails (AlreadyResolved:
\* anything but 200) and leaves the stored supervisor_response and the
\* learned entries as the first resolution left them.
C1_SecondResolveRejected ==
    [][\A r \in DOMAIN help_requests :
          (help_requests[r].status = "resolved" /\ ResolveStep(r)) =>
              /\ last_update'.code # 200
              /\ help_requests'[r].supervisor_response =
                     help_requests[r].supervisor_response
              /\ learned_knowledge' = learned_knowledge]_vars

\* C2: when the handlers of two consoles' Resolve calls on one request are
\* in flight together, one call has succeeded and one resolution's learned
\* entry exists.
Racing(r) ==
    {s \in Supervisors : /\ bcast[s].state = "sending"
                         /\ bcast[s].message.request_id = r}
C2_OneWinner ==
    \A r \in DOMAIN help_requests :
        Cardinality(Racing(r)) >= 2 =>
            /\ resolve_ok[r] = 1
            /\ Cardinality(LearnedFrom(r)) = 1

\* C3: a request's status is pending or resolved after every step, and a
\* resolved request stays resolved.
C3_PendingThenResolved ==
    [][\A r \in DOMAIN help_requests :
          /\ help_requests'[r].status \in {"pending", "resolved"}
          /\ help_requests[r].status = "resolved" =>
                 help_requests'[r].status = "resolved"]_vars

\* C4: a Resolve of an id no request has answers NotFound (404) and leaves
\* nothing behind: no request document, no learned entry, no
\* supervisor_response frame.
C4_UnknownIdNoEffect ==
    /\ UnknownId \notin DOMAIN help_requests
    /\ LearnedFrom(UnknownId) = {}
    /\ last_update.request_id = UnknownId => last_update.code \in {0, 404}
    /\ \A c \in Conns : \A f \in Frames(c) :
           f.type = "supervisor_response" => f.request_id # UnknownId

\* C5: when a send of a broadcast fails, every other connection registered
\* then has the frame when the broadcast is over, and the failing
\* connection is no longer registered.
C5_FailedSendIsolated ==
    [][\A o \in Conns :
          (bcast'[o].state = "raised" /\ bcast[o].state # "raised") =>
              /\ \A c \in Registered(active_connections) \ {bcast'[o].failed} :
                     bcast'[o].message \in {stream'[c][i] :
                                               i \in 1..Len(stream'[c])}
              /\ bcast'[o].failed \notin Registered(active_connections')]_vars

\* C6: every connection gets the frames of successive broadcasts in the
\* order the broadcasts were called.
C6_FifoPerConnection ==
    \A c \in Conns : \A i, j \in 1..Len(stream[c]) :
        i < j => stream[c][i].n < stream[c][j].n

\* C7: when the escalation utterance is issued, the request is recorded (as
\* it was posted, pending) and every connection that was registered when
\* its new_request broadcast was called, and still is, has the frame.
C7_EscalationOrdered ==
    [][\A a \in Agents :
          (\E u \in spoken'[a] \ spoken[a] : u.kind = "escalation") =>
              /\ bcast[a].message.request_id \in DOMAIN help_requests
              /\ bcast[a].message.status = "pending"
              /\ \A c \in bcast[a].subs \cap Registered(active_connections) :
                     bcast[a].message \in Frames(c)]_vars

\* C8: a turn creates an escalation request exactly when the knowledge
\* lookup gave no answer and the LLM gave none (null or a failure); a
\* knowledge hit neither consults the LLM nor creates a request.
TurnOver(a) == pc[a] = "idle" /\ turn[a].no > 0
Created(a) == turn[a].request_id \in DOMAIN help_requests
C8_EscalateIffNoAnswer ==
    \A a \in Agents :
        TurnOver(a) =>
            /\ Created(a) <=> (turn[a].answer = None
                               /\ turn[a].llm \in {"null", "error"})
            /\ turn[a].answer # None =>
                   (turn[a].llm = "not_called" /\ ~Created(a))

\* A step in which session a looked a question up (a new turn began).
LookedUp(a) == turn'[a].no # turn[a].no
Asked(a) == Lower(turn'[a].question)

\* C9: a question the session's predefined tier holds, asked in any casing,
\* gets the predefined answer, and neither the session's learned entries
\* nor the stored ones (their times_used included) change.
C9_PredefinedPrecedence ==
    [][\A a \in Agents :
          (LookedUp(a) /\ Asked(a) \in DOMAIN predefined_knowledge[a]) =>
              /\ turn'[a].answer = predefined_knowledge[a][Asked(a)].answer
              /\ agent_learned'[a] = agent_learned[a]
              /\ learned_knowledge' = learned_knowledge]_vars

\* "HI" was asked ("Hi" is what the collection holds) while the session held
\* a verified learned entry for "hi" with another answer, and got "P".
C9_Witness ==
    \E a \in Agents :
        /\ turn[a].no > 0
        /\ turn[a].question = << "H", "I" >>
        /\ turn[a].answer = << "P" >>
        /\ << "h", "i" >> \in DOMAIN agent_learned[a]
        /\ agent_learned[a][<< "h", "i" >>].verified
        /\ agent_learned[a][<< "h", "i" >>].answer = << "A" >>
        /\ agent_learned[a][<< "h", "i" >>].times_used = 0

\* C10: a question only the learned tier holds is answered exactly when the
\* entry is verified, or its confidence and its success rate both exceed
\* 0.8; the answer is then the entry's.
C10_LearnedThreshold ==
    [][\A a \in Agents :
          (/\ LookedUp(a)
           /\ Asked(a) \notin DOMAIN predefined_knowledge[a]
           /\ Asked(a) \in DOMAIN agent_learned[a]) =>
              LET entry == agent_learned[a][Asked(a)]
              IN /\ turn'[a].answer # None <=>
                        (entry.verified \/ (entry.confidence > 80
                                            /\ entry.success_rate > 80))
                 /\ turn'[a].answer # None => turn'[a].answer = entry.answer]_vars

\* An unverified entry with confidence exactly 0.8 (success rate 0.9) was
\* looked up and missed.
C10_Witness ==
    \E a \in Agents :
        /\ turn[a].no > 0
        /\ Lower(turn[a].question) \notin DOMAIN predefined_knowledge[a]
        /\ Lower(turn[a].question) \in DOMAIN agent_learned[a]
        /\ ~agent_learned[a][Lower(turn[a].question)].verified
        /\ agent_learned[a][Lower(turn[a].question)].confidence = 80
        /\ agent_learned[a][Lower(turn[a].question)].success_rate = 90
        /\ turn[a].answer = None

\* A step in which Resolve(r, x) is called (see ResolveStep).
ResolvedWith(r, x) ==
    \/ \E s \in Supervisors : handle_supervisor_response(s, r, x)
    \/ \E q \in {None} : PutHelpRequest(r, "resolved", x, q)
    \/ \E a \in Agents :
          /\ listen_for_messages(a)
          /\ listener'[a] = "handling"
          /\ stream[a][rd'[a]].request_id = r
          /\ stream[a][rd'[a]].response = x

\* The step added a learned_knowledge document for question q answered x on
\* request r: confidence 1.0, not verified, never used, success rate 1.0.
InsertedFor(r, q, x) ==
    \E i \in DOMAIN learned_knowledge' \ DOMAIN learned_knowledge :
        learned_knowledge'[i] =
            [question |-> q, answer |-> x, confidence |-> 100, verified |-> FALSE,
             source_request_id |-> r, times_used |-> 0, success_rate |-> 100]

C12_UniqueLearnedQuestion ==
    \A i, j \in DOMAIN learned_knowledge :
        i # j => Lower(learned_knowledge[i].question) #
                     Lower(learned_knowledge[j].question)

\* The supervisor_response frames for question k (case-folded) that session
\* a's handle_supervisor_response has gone through, and the latest one's
\* response.
Handled(a) == IF listener[a] = "handling" THEN rd[a] - 1 ELSE rd[a]
Answers(a, k) ==
    {i \in 1..Handled(a) : /\ stream[a][i].type = "supervisor_response"
                           /\ Truthy(stream[a][i].question)
                           /\ Lower(stream[a][i].question) = k}
LatestAnswer(a, k) ==
    stream[a][CHOOSE i \in Answers(a, k) : \A j \in Answers(a, k) : j <= i].response

C14_InsertFailureNotFatal ==
    [][\A s \in Supervisors : \A r \in DOMAIN help_requests : \A x \in Responses :
          (/\ handle_supervisor_response(s, r, x)
           /\ Truthy(x)
           /\ last_update'.code = 500) =>
              /\ learned_knowledge' = learned_knowledge
              /\ help_requests'[r].status = "resolved"
              /\ help_requests'[r].supervisor_response = x
              /\ calls' = calls + 1
              /\ bcast'[s].state # "idle"
              /\ bcast'[s].message =
                     SupervisorResponseEvent(calls', r, x, help_requests[r].question)
              ]_vars

\* Request 1 is stored as resolved with "A", no learned entry came of it,
\* the update answered 500, and the console has the supervisor_response
\* frame with "A".
C14_Witness ==
    /\ last_update = [request_id |-> 1, status |-> "resolved", code |-> 500]
    /\ help_requests[1].status = "resolved"
    /\ help_requests[1].supervisor_response = << "A" >>
    /\ LearnedFrom(1) = {}
    /\ \E f \in Frames("s1") : /\ f.type = "supervisor_response"
                               /\ f.request_id = 1
                               /\ f.response = << "A" >>

\* C15: when a send of the new_request broadcast failed, POST
\* /help-requests/ still answers success (the session says the escalation
\* sentence) and the request is stored, pending.
C15_CreateSurvivesBroadcast ==
    [][\A a \in Agents :
          (agent_create_help_request(a) /\ bcast[a].state = "raised") =>
              /\ turn[a].request_id \in DOMAIN help_requests'
              /\ help_requests'[turn[a].request_id].status = "pending"
              /\ \E u \in spoken'[a] \ spoken[a] : u.kind = "escalation"]_vars

\* C16: a turn that neither the lookup nor the LLM answered issues one
\* utterance: the escalation sentence exactly when the turn's request is
\* recorded, the apology exactly when it is not.
C16_OneUtterance ==
    [][\A a \in Agents :
          agent_create_help_request(a) =>
              LET recorded == turn[a].request_id \in DOMAIN help_requests'
              IN /\ Cardinality(spoken'[a] \ spoken[a]) = 1
                 /\ Len(turn'[a].said) = 1
                 /\ \A u \in spoken'[a] \ spoken[a] :
                        /\ u.kind = "escalation" <=> recorded
                        /\ u.kind = "apology" <=> ~recorded]_vars

C18_AnswerToOriginatorOnly ==
    \A a \in Agents : \A u \in spoken[a] :
        u.kind = "supervisor" => u.request_id \in Originated(a)

\* C19: a webhook delivery whose signature does not verify against its raw
\* body is answered 401 and nothing else happens: no event is handled, no
\* broadcast is called.
C19_BadSignatureRejected ==
    [][\A body \in WebhookBodies : \A api_secret \in ApiSecrets :
       \A signature \in Signatures(body) :
          (/\ livekit_webhook(signature, api_secret, body)
           /\ ~verify_livekit_signature(signature, api_secret, body)) =>
              /\ last_webhook' = [code |-> 401, event |-> "none"]
              /\ UNCHANGED << stream, bcast, calls, store_vars >>]_vars

\* C20: in every reachable state a help request that carries a non-empty
\* supervisor_response has status "resolved".
C20_ResponseOnlyWhenResolved ==
    \A r \in DOMAIN help_requests :
        Truthy(help_requests[r].supervisor_response) =>
            help_requests[r].status = "resolved"

\* C21: disconnect of a connection that is not in active_connections raises
\* nothing and leaves the list as it is.
C21_UnregisterAbsentNoOp ==
    [][\A ws \in Conns :
          (Unregister(ws) /\ ws \notin Registered(active_connections)) =>
              /\ last_disconnect' = [ws |-> ws, raised |-> "none"]
              /\ active_connections' = active_connections]_vars

\* C22: while a broadcast is suspended in a send, every console registered
\* when it was called, other than the slow one, eventually has the frame.
C22_SlowSubscriberNoStall ==
    \A c \in Supervisors \ {SlowSubscriber} : \A n \in 1..MaxHooks :
        (/\ bcast[Hook].state = "sending"
         /\ bcast[Hook].message.n = n
         /\ c \in bcast[Hook].subs)
            ~> (\E f \in Frames(c) : f.n = n)

\* C23: when a lookup matches a learned entry and the request that records
\* the usage fails, the lookup returns the entry's answer all the same: the
\* turn is a learned hit, and a non-empty answer is spoken and ends the turn.
C23_UsageFailureSwallowed ==
    [][\A a \in Agents :
          (LookedUp(a) /\ budget'.faults < budget.faults) =>
              LET entry == agent_learned[a][Asked(a)]
              IN /\ turn'[a].tier = "learned"
                 /\ turn'[a].answer = entry.answer
                 /\ Truthy(entry.answer) =>
                        /\ pc'[a] = "idle"
                        /\ Utterance("answer", entry.answer, UnknownId)
                               \in spoken'[a]]_vars

\* The session looked "yO" up, hit the entry it had learned from the
\* supervisor, the usage write failed (the stored entry still counts no
\* use), and the answer "A" was spoken.
C23_Witness ==
    \E a \in Agents :
        /\ turn[a].question = << "y", "O" >>
        /\ turn[a].usage = "failed"
        /\ turn[a].tier = "learned"
        /\ turn[a].answer = << "A" >>
        /\ agent_learned[a][<< "y", "o" >>].times_used = 1
        /\ learned_knowledge[agent_learned[a][<< "y", "o" >>].id].times_used = 0
        /\ Utterance("answer", << "A" >>, UnknownId) \in spoken[a]
        /\ pc[a] = "idle"

\* C24: a step that calls the supervisor_response broadcast for (r, x)
\* leaves request r stored as resolved with response x and with the
\* question the frame carries, and calls one broadcast; the steps of the
\* sessions' handle_supervisor_response call none.
C24_BroadcastMatchesRegistry ==
    [][/\ \A s \in Supervisors : \A r \in DOMAIN help_requests \cup {UnknownId} :
          \A x \in Responses :
             handle_supervisor_response(s, r, x) =>
                 /\ calls' = calls + 1
                 /\ r \in DOMAIN help_requests'
                 /\ help_requests'[r] =
                        HelpRequest("resolved", x, help_requests[r].question)
                 /\ \A c \in Conns : \A f \in Frames(c)' :
                        f.n = calls' =>
                            f = SupervisorResponseEvent(calls', r, x,
                                    help_requests'[r].question)
       /\ \A a \in Agents :
             (listen_for_messages(a) \/ agent_handle_supervisor_response(a)) =>
                 calls' = calls]_vars

\* C25: once a session has said the escalation sentence for request r and r
\* has been resolved successfully, the session eventually speaks the
\* supervisor's answer for r.
C25_AnswerEventuallySpoken ==
    \A a \in Agents : \A r \in 1..(1 + MaxTurns) :
        (/\ Utterance("escalation", Escalation, r) \in spoken[a]
         /\ r \in DOMAIN help_requests
         /\ help_requests[r].status = "resolved"
         /\ resolve_ok[r] > 0)
            ~> (\E u \in spoken[a] : u.kind = "supervisor" /\ u.request_id = r)

\* C26: a connection whose receive loop has ended, for whatever reason, is
\* not in active_connections.
C26_EndedMeansUnregistered ==
    \A c \in Conns :
        endpoint[c] = "ended" => c \notin Registered(active_connections)

\* The stored learned entries for the case-folded question k.
Stored(k) ==
    {i \in DOMAIN learned_knowledge : Lower(learned_knowledge[i].question) = k}

\* C27: a lookup that returns a learned entry adds one to the stored
\* times_used of an entry for that question and leaves every other stored
\* count alone; a lookup that misses or hits the predefined tier leaves all
\* of them alone (the usage writes all succeed).
C27_UsageCounted ==
    [][\A a \in Agents :
          LookedUp(a) =>
              IF turn'[a].tier = "learned"
              THEN \E i \in Stored(Asked(a)) :
                      /\ learned_knowledge'[i].times_used =
                             learned_knowledge[i].times_used + 1
                      /\ \A j \in DOMAIN learned_knowledge \ {i} :
                             learned_knowledge'[j].times_used =
                                 learned_knowledge[j].times_used
              ELSE \A j \in DOMAIN learned_knowledge :
                      learned_knowledge'[j].times_used =
                          learned_knowledge[j].times_used]_vars

\* C28: a lookup changes nothing of a stored learned entry but times_used:
\* question, answer, confidence, success rate and the verified flag stay as
\* Insert or MarkVerified last set them.
C28_UsageTouchesOnlyCount ==
    [][\A a \in Agents :
          LookedUp(a) =>
              /\ DOMAIN learned_knowledge' = DOMAIN learned_knowledge
              /\ \A i \in DOMAIN learned_knowledge :
                     learned_knowledge'[i] =
                         [learned_knowledge[i] EXCEPT
                            !.times_used = learned_knowledge'[i].times_used]]_vars

\* C29: when a broadcast runs to its end, every connection that was
\* registered when it was called and still is has the frame, whatever was
\* registered or unregistered while it was suspended.
C29_NoSubscriberSkipped ==
    [][(/\ bcast[Hook].state = "sending"
        /\ bcast'[Hook].state = "idle"
        /\ last_webhook'.code = 200) =>
           \A c \in bcast[Hook].subs \cap Registered(active_connections') :
               \E i \in 1..Len(stream'[c]) : stream'[c][i] = bcast[Hook].message
      ]_vars
====
